---- MODULE Spec2Model ----
\* Model of PriceManager (src/src/lib/price.ts): the price cache, the
\* fetchWithRetry loop and the three-provider chain of getSolanaPrice,
\* as run by overlapping callers on one cooperative event loop.
\* And of the account-data methods of SolanaConnectionManager
\* (src/unnamed/part_000), under SpecAccount.
EXTENDS Integers, Sequences, FiniteSets, TLC

\* ------------------------------------------------------------ bounds
MaxSeconds == 75          \* the clock stops advancing after this many seconds
MaxCalls == 2             \* getSolanaPrice invocations in a behaviour whose fetches all get an answer
MaxFaults == 4            \* transport errors and 429 answers in a behaviour of one invocation
MaxAccounts == 2          \* token accounts an owner may hold

\* ---------------------------------------------------- program constants
CACHE_DURATION == 60000
MAX_RETRIES == 3
RETRY_DELAY == 1000

LAMPORTS_PER_SOL == 1000000000

Callers == {"a", "b"}
Providers == 1..3         \* 1 CoinGecko, 2 Jupiter, 3 Binance, in source order
KEY == "solana"
MaxNow == MaxSeconds * 1000

\* ------------------------------------------------- JavaScript values
\* A value is undefined, a number (NaN included) or a string; a string is
\* a sequence of one-character strings so that parsing can read it.
Undef == [t |-> "undefined", n |-> 0, s |-> <<>>]
NaN == [t |-> "nan", n |-> 0, s |-> <<>>]
Num(n) == [t |-> "number", n |-> n, s |-> <<>>]
Str(s) == [t |-> "string", n |-> 0, s |-> s]

TypeOf(v) == IF v.t = "nan" THEN "number" ELSE v.t

IsNumeric(v) == v.t = "number"

Truthy(v) ==
    CASE v.t = "undefined" -> FALSE
      [] v.t = "nan" -> FALSE
      [] v.t = "number" -> v.n # 0
      [] v.t = "string" -> v.s # <<>>

\* a || b
OrElse(a, b) == IF Truthy(a) THEN a ELSE b

Digits == {"0", "1", "2", "3", "4", "5", "6", "7", "8", "9"}
DigitVal == ("0" :> 0) @@ ("1" :> 1) @@ ("2" :> 2) @@ ("3" :> 3) @@ ("4" :> 4)
            @@ ("5" :> 5) @@ ("6" :> 6) @@ ("7" :> 7) @@ ("8" :> 8) @@ ("9" :> 9)

\* the length of the longest prefix of s made of digits
RECURSIVE DigitRun(_)
DigitRun(s) ==
    IF s = <<>> \/ Head(s) \notin Digits THEN 0 ELSE 1 + DigitRun(Tail(s))

RECURSIVE DigitsValue(_, _)
DigitsValue(s, k) ==
    IF k = 0 THEN 0 ELSE 10 * DigitsValue(s, k - 1) + DigitVal[s[k]]

RECURSIVE SkipSpace(_)
SkipSpace(s) == IF s # <<>> /\ Head(s) = " " THEN SkipSpace(Tail(s)) ELSE s

\* The number a string starts with (blanks, a sign, decimal digits), NaN
\* when it starts with none. On strings without ".", "e" or a radix prefix
\* parseInt and parseFloat read the same number.
ParseDecimal(s) ==
    LET t == SkipSpace(s)
        neg == t # <<>> /\ Head(t) = "-"
        u == IF t # <<>> /\ Head(t) \in {"-", "+"} THEN Tail(t) ELSE t
        k == DigitRun(u)
    IN  IF k = 0 THEN NaN
        ELSE Num(IF neg THEN 0 - DigitsValue(u, k) ELSE DigitsValue(u, k))

\* parseInt(x), parseFloat(x): the argument is converted to a string first
ParseInt(v) ==
    CASE v.t = "string" -> ParseDecimal(v.s)
      [] v.t = "number" -> v
      [] OTHER -> NaN

ParseFloat(v) ==
    CASE v.t = "string" -> ParseDecimal(v.s)
      [] v.t = "number" -> v
      [] OTHER -> NaN

\* x * k for a number k
Times(v, k) == IF v.t = "number" THEN Num(v.n * k) ELSE NaN

\* setTimeout(f, d): a delay that is NaN or negative is taken as 0
TimeoutMs(v) == IF v.t = "number" /\ v.n > 0 THEN v.n ELSE 0

\* Math.pow(2, k)
RECURSIVE Pow2(_)
Pow2(k) == IF k = 0 THEN 1 ELSE 2 * Pow2(k - 1)

\* ------------------------------------------------------ option values
None == <<>>
Some(x) == <<x>>

\* ------------------------------------------------------------- state
VARIABLES
    now,          \* Date.now(), in ms
    cache,        \* PriceManager.cache: a map from key to {price, change24h, timestamp}
    call,         \* per caller: the getSolanaPrice invocation it has in flight
    recent,       \* "clearCache" when the latest step was clearCache(), a caller
                  \* when it was that caller's getSolanaPrice() made right
                  \* after clearCache(), "other" otherwise
    budget,       \* what the behaviour may still hold: invocations, and
                  \* fetches that end in a transport error or a 429
    lookup        \* per method of SolanaConnectionManager: its invocation

vars == <<now, cache, call, recent, budget, lookup>>

\* A behaviour is one invocation whose fetches may fail or be rate limited
\* up to MaxFaults times, or up to MaxCalls invocations, overlapping or
\* not, whose every fetch gets an answer other than 429.
Budgets == {[calls |-> 1, faults |-> MaxFaults], [calls |-> MaxCalls, faults |-> 0]}

EmptyMap == [k \in {} |-> 0]

\* Map.get: the entry under k, or nothing
MapGet(m, k) == IF k \in DOMAIN m THEN Some(m[k]) ELSE None

\* Map.set
MapSet(m, k, v) == [x \in DOMAIN m \cup {k} |-> IF x = k THEN v ELSE m[x]]

Pair(price, change24h) == [price |-> price, change24h |-> change24h]

\* One invocation: where it is suspended (pc), the locals of getSolanaPrice
\* (cached) and of fetchWithRetry (i, lastError), the timer it sleeps on,
\* what it returned, and a record of what it did: the providers it sent
\* requests to (reqs), the transport errors each provider's fetchWithRetry
\* run met (nerr), the answer the loop is sleeping on (last) and how each
\* provider's block ended (ended: "none", "ok", or as a failure "throw" when
\* fetchWithRetry threw, "notok" on a status outside 2xx, "body" when the
\* body did not parse or lacked the fields).
IdleCall ==
    [pc |-> "idle", prov |-> 0, i |-> 0, lastError |-> FALSE, cached |-> None,
     timer |-> [at |-> 0, delay |-> Num(0)], result |-> None, ret |-> "none",
     reqs |-> <<>>, nerr |-> [p \in Providers |-> 0],
     last |-> [out |-> "none", hdr |-> None],
     ended |-> [p \in Providers |-> "none"]]

\* -------------------------------------------- SolanaConnectionManager
\* (src/unnamed/part_000) The four account-data methods, each one
\* invocation at a time.
Methods == {"getBalance", "getTokenAccounts", "getTransactions", "getTransactionDetails"}

TokenAccounts == 1..MaxAccounts

\* The message of the Error each method's catch block throws
ErrorMessage(m) ==
    CASE m = "getBalance" -> "Failed to fetch balance"
      [] m = "getTokenAccounts" -> "Failed to fetch token accounts"
      [] m = "getTransactions" -> "Failed to fetch transactions"
      [] m = "getTransactionDetails" -> "Failed to fetch transaction details"

\* The lookup a method awaits first
FirstAwait(m) ==
    CASE m = "getBalance" -> "connection.getBalance"
      [] m = "getTokenAccounts" -> "getParsedTokenAccountsByOwner"
      [] m = "getTransactions" -> "getTransactionHistory"
      [] m = "getTransactionDetails" -> "parseTransaction"

\* The methods that build a PublicKey from the address before any lookup
ParsesAddress(m) == m \in {"getBalance", "getTokenAccounts"}

\* What the lookup of a method other than getTokenAccounts may resolve with
Answers(m) ==
    CASE m = "getBalance" -> {0, 1500000000}
      [] m = "getTransactions" -> {<<>>, <<"signature">>}
      [] m = "getTransactionDetails" -> {<<"parsed">>}

\* One invocation: the lookup it awaits (pc, or "idle", "resolved",
\* "rejected"), the token accounts it works on, and a record of what it met:
\* the lookups that failed (failed) and the accounts whose
\* getParsedAccountInfo failed (dropped).
IdleLookup ==
    [pc |-> "idle", accounts |-> {}, failed |-> {}, dropped |-> {},
     result |-> None, error |-> ""]

Init ==
    /\ now = 0
    /\ cache = EmptyMap
    /\ call = [c \in Callers |-> IdleCall]
    /\ recent = "other"
    /\ budget \in Budgets
    /\ lookup = [m \in Methods |-> IdleLookup]

\* ------------------------------------------------ what providers answer
Ok(status) == status >= 200 /\ status <= 299

Statuses == {200, 429, 500}

\* Retry-After of a 429 answer: absent, or a header value
RetryAfterValues == {None, Some(Str(<<"2">>)), Some(Str(<<"x">>))}

UsdValues == {Undef, Num(150), Num(0), Str(<<"1">>)}
UsdChangeValues == {Undef, Num(-2)}
JupiterPrices == {Undef, Num(151)}
LastPrices == {Undef, Str(<<"1", "5", "2">>), Str(<<"x">>)}
PercentValues == {Undef, Str(<<"-", "3">>)}

\* What response.json() gives: it throws, or yields the fields the code reads
Bodies(p) ==
    CASE p = 1 ->
            {[throws |-> TRUE]}
            \cup {[throws |-> FALSE, solana |-> FALSE]}
            \cup {[throws |-> FALSE, solana |-> TRUE, usd |-> u, usd_24h_change |-> ch] :
                    u \in UsdValues, ch \in UsdChangeValues}
      [] p = 2 ->
            {[throws |-> TRUE]}
            \cup {[throws |-> FALSE, price |-> x] : x \in JupiterPrices}
      [] p = 3 ->
            {[throws |-> TRUE]}
            \cup {[throws |-> FALSE, lastPrice |-> x, priceChangePercent |-> y] :
                    x \in LastPrices, y \in PercentValues}

\* ------------------------------------------------------ getSolanaPrice
\* (mutant) a record is fresh up to and including the age of CACHE_DURATION
IsFresh_Inclusive(cached, t) ==
    cached # None /\ t - cached[1].timestamp <= CACHE_DURATION

\* (mutant) the comparison of the cache check inverted
IsFresh_Inverted(cached, t) ==
    cached # None /\ t - cached[1].timestamp > CACHE_DURATION

\* The cache check of lines 62-63
IsFresh(cached, t) ==
    cached # None /\ t - cached[1].timestamp < CACHE_DURATION

\* fetchWithRetry(url of p) starts: the loop's first fetch is issued
Request(r, p) ==
    [r EXCEPT !.pc = "fetch", !.prov = p, !.i = 0, !.lastError = FALSE,
              !.reqs = Append(@, p)]

\* (mutant) the default pair with a price of 0
DefaultPair_Zero == Pair(Num(0), Num(0))

\* The pair of line 136
DefaultPair == Pair(Num(100), Num(0))

\* (mutant) the fallback forgets the stale record
Fallback_DefaultOnly(r) ==
    [r EXCEPT !.pc = "done", !.ret = "default", !.result = Some(DefaultPair)]

\* The fallback after the three blocks, lines 129-136
Fallback(r) ==
    IF r.cached # None
    THEN [r EXCEPT !.pc = "done", !.ret = "stale",
                   !.result = Some(Pair(r.cached[1].price, r.cached[1].change24h))]
    ELSE [r EXCEPT !.pc = "done", !.ret = "default", !.result = Some(DefaultPair)]

\* Provider p's block ended without a return (its catch ran, or its ifs
\* fell through): control goes on to the next block
ProviderFailed(r, how) ==
    LET r1 == [r EXCEPT !.ended[r.prov] = how]
    IN  IF r.prov < 3 THEN Request(r1, r.prov + 1) ELSE Fallback(r1)

\* (mutant) no catch clause: the exception leaves getSolanaPrice
Thrown_Uncaught(r, how) == [r EXCEPT !.pc = "rejected", !.ended[r.prov] = how]

\* An exception thrown inside provider p's try block: its catch clause
\* logs it and control goes on to the next block
Thrown(r, how) == ProviderFailed(r, how)

\* (mutant) the loop starts over when its attempts are used up
NextAttempt_StartOver(r) ==
    LET r1 == [r EXCEPT !.i = r.i + 1, !.timer = IdleCall.timer, !.last = IdleCall.last]
    IN  IF r1.i <= MAX_RETRIES
        THEN [r1 EXCEPT !.pc = "fetch", !.reqs = Append(@, r.prov)]
        ELSE [r1 EXCEPT !.pc = "fetch", !.i = 0, !.reqs = Append(@, r.prov)]

\* The for loop's i++ and test, then the next fetch, or the throw of line 56
NextAttempt(r) ==
    LET r1 == [r EXCEPT !.i = r.i + 1, !.timer = IdleCall.timer, !.last = IdleCall.last]
    IN  IF r1.i <= MAX_RETRIES
        THEN [r1 EXCEPT !.pc = "fetch", !.reqs = Append(@, r.prov)]
        ELSE Thrown(r1, "throw")

\* (mutant) the Retry-After header is not read
RateLimitDelay_NoHeader(h) == Num(RETRY_DELAY)

\* The delay of line 42 for a 429 answer with Retry-After header h
RateLimitDelay(h) ==
    IF h # None /\ Truthy(h[1]) THEN Times(ParseInt(h[1]), 1000) ELSE Num(RETRY_DELAY)

\* (mutant) a backoff that grows linearly
BackoffDelay_Linear(i) == Num(RETRY_DELAY * (i + 1))

\* The delay of line 51 after a transport error in iteration i
BackoffDelay(i) == Num(RETRY_DELAY * Pow2(i))

Sleep(r, delay, t) == [r EXCEPT !.pc = "sleep", !.timer = [at |-> t, delay |-> delay]]

Log(r, entry) ==
    [r EXCEPT !.last = entry,
              !.nerr[r.prov] = IF entry.out = "error" THEN @ + 1 ELSE @]

\* fetch() rejected: the catch of lines 48-53
OnFetchError(r, t) ==
    LET r1 == [r EXCEPT !.lastError = TRUE]
    IN  IF r.i < MAX_RETRIES
        THEN Sleep(Log(r1, [out |-> "error", hdr |-> None]), BackoffDelay(r.i), t)
        ELSE NextAttempt(Log(r1, [out |-> "error", hdr |-> None]))

\* (mutant) a 429 does not use up one of the loop's iterations
OnRateLimited_Free(r, h, t) ==
    Sleep(Log([r EXCEPT !.i = @ - 1], [out |-> "429", hdr |-> h]), RateLimitDelay(h), t)

\* fetch() resolved with status 429: lines 40-45
OnRateLimited(r, h, t) ==
    Sleep(Log(r, [out |-> "429", hdr |-> h]), RateLimitDelay(h), t)

\* (mutant) a status outside 2xx is retried like a transport error
OnResponse_RetryNotOk(r, status) ==
    IF Ok(status) THEN [r EXCEPT !.pc = "json"] ELSE NextAttempt(r)

\* fetch() resolved with another status: line 47, then the caller's
\* response.ok test
OnResponse(r, status) ==
    IF Ok(status) THEN [r EXCEPT !.pc = "json"] ELSE ProviderFailed(r, "notok")

\* The pair a provider's block extracts from its body, or nothing when its
\* if fails: lines 76-78, 97-99, 117-119
Extract(p, body, cached) ==
    CASE p = 1 ->
            IF body.solana /\ TypeOf(body.usd) = "number"
            THEN Some(Pair(body.usd, OrElse(body.usd_24h_change, Num(0))))
            ELSE None
      [] p = 2 ->
            IF Truthy(body.price)
            THEN Some(Pair(body.price,
                           OrElse(IF cached # None THEN cached[1].change24h ELSE Undef,
                                  Num(0))))
            ELSE None
      [] p = 3 ->
            IF Truthy(body.lastPrice) /\ Truthy(body.priceChangePercent)
            THEN Some(Pair(ParseFloat(body.lastPrice), ParseFloat(body.priceChangePercent)))
            ELSE None

\* The record cache.set stores for a pair at time t
\* (mutant) the record is stamped with time 0, not the time of the write
Stored_Unstamped(pair, t) ==
    [price |-> pair.price, change24h |-> pair.change24h, timestamp |-> 0]

Stored(pair, t) ==
    [price |-> pair.price, change24h |-> pair.change24h, timestamp |-> t]

\* (mutant) the return after cache.set is missing: the next block runs
Returned_NoReturn(r, pair) ==
    IF r.prov < 3
    THEN Request([r EXCEPT !.ended[r.prov] = "ok"], r.prov + 1)
    ELSE [r EXCEPT !.pc = "done", !.ret = "fromProvider", !.result = Some(pair),
                   !.ended[r.prov] = "ok"]

\* The return of lines 82, 102, 122
Returned(r, pair) ==
    [r EXCEPT !.pc = "done", !.ret = "fromProvider", !.result = Some(pair),
              !.ended[r.prov] = "ok"]

\* (mutant) a record another call stored while this one was in flight is kept
OnJson_FirstWriteWins(r, body, m, t) ==
    LET got == IF body.throws THEN None ELSE Extract(r.prov, body, r.cached)
        kept == MapGet(m, KEY) # None /\ MapGet(m, KEY) # r.cached
    IN  CASE body.throws -> [call |-> Thrown(r, "body"), cache |-> m]
          [] ~body.throws /\ got = None -> [call |-> ProviderFailed(r, "body"), cache |-> m]
          [] OTHER -> [call |-> Returned(r, got[1]),
                       cache |-> IF kept THEN m ELSE MapSet(m, KEY, Stored(got[1], t))]

\* response.json() settled with body at time t: the rest of the provider's
\* block, as the invocation and the cache it leaves
OnJson(r, body, m, t) ==
    LET got == IF body.throws THEN None ELSE Extract(r.prov, body, r.cached)
    IN  CASE body.throws -> [call |-> Thrown(r, "body"), cache |-> m]
          [] ~body.throws /\ got = None -> [call |-> ProviderFailed(r, "body"), cache |-> m]
          [] OTHER -> [call |-> Returned(r, got[1]),
                       cache |-> MapSet(m, KEY, Stored(got[1], t))]

\* ------------------------------------------------------------ actions
\* getSolanaPrice() is called: lines 59-71, up to the first await
Call(c) ==
    /\ call[c].pc = "idle"
    /\ budget.calls > 0
    /\ budget' = [budget EXCEPT !.calls = @ - 1]
    /\ LET cached == MapGet(cache, KEY)
           r == [IdleCall EXCEPT !.cached = cached]
       IN  call' = [call EXCEPT ![c] =
                IF IsFresh(cached, now)
                THEN [r EXCEPT !.pc = "done", !.ret = "fresh",
                               !.result = Some(Pair(cached[1].price, cached[1].change24h))]
                ELSE Request(r, 1)]
    /\ recent' = IF recent = "clearCache" THEN c ELSE "other"
    /\ UNCHANGED <<now, cache, lookup>>

\* The pending fetch() rejects with a transport error
FetchFails(c) ==
    /\ call[c].pc = "fetch"
    /\ budget.faults > 0
    /\ budget' = [budget EXCEPT !.faults = @ - 1]
    /\ call' = [call EXCEPT ![c] = OnFetchError(call[c], now)]
    /\ recent' = "other"
    /\ UNCHANGED <<now, cache, lookup>>

\* The pending fetch() resolves with a 429
FetchRateLimited(c) ==
    /\ call[c].pc = "fetch"
    /\ budget.faults > 0
    /\ budget' = [budget EXCEPT !.faults = @ - 1]
    /\ \E h \in RetryAfterValues :
          call' = [call EXCEPT ![c] = OnRateLimited(call[c], h, now)]
    /\ recent' = "other"
    /\ UNCHANGED <<now, cache, lookup>>

\* The pending fetch() resolves with another status
FetchResponds(c) ==
    /\ call[c].pc = "fetch"
    /\ \E status \in Statuses \ {429} :
          call' = [call EXCEPT ![c] = OnResponse(call[c], status)]
    /\ recent' = "other"
    /\ UNCHANGED <<now, cache, budget, lookup>>

\* When the timer r sleeps on is due
Due(r) == r.timer.at + TimeoutMs(r.timer.delay)

\* The timer of line 43 or 51 fires, at its due time or later: the loop goes on
TimerFires(c) ==
    /\ call[c].pc = "sleep"
    /\ now' = IF now < Due(call[c]) THEN Due(call[c]) ELSE now
    /\ call' = [call EXCEPT ![c] = NextAttempt(call[c])]
    /\ recent' = "other"
    /\ UNCHANGED <<cache, budget, lookup>>

\* response.json() settles: the rest of the provider's block
JsonSettles(c) ==
    /\ call[c].pc = "json"
    /\ \E body \in Bodies(call[c].prov) :
          LET out == OnJson(call[c], body, cache, now)
          IN  /\ cache' = out.cache
              /\ call' = [call EXCEPT ![c] = out.call]
    /\ recent' = "other"
    /\ UNCHANGED <<now, budget, lookup>>

\* The caller takes the settled promise's value
Resolve(c) ==
    /\ call[c].pc = "done"
    /\ call' = [call EXCEPT ![c] = IdleCall]
    /\ recent' = "other"
    /\ UNCHANGED <<now, cache, budget, lookup>>

\* (mutant) clear() leaves the map as it is
Cleared_Kept(m) == m

\* Map.clear
Cleared(m) == EmptyMap

\* clearCache(), lines 152-154
ClearCache ==
    /\ cache' = Cleared(cache)
    /\ recent' = "clearCache"
    /\ UNCHANGED <<now, call, budget, lookup>>

\* The instants around the cached record's expiry
Expiry(m) ==
    IF KEY \in DOMAIN m
    THEN {m[KEY].timestamp + CACHE_DURATION - 1, m[KEY].timestamp + CACHE_DURATION,
          m[KEY].timestamp + CACHE_DURATION + 1}
    ELSE {}

\* Time passes with nothing running, up to one of those instants
Tick ==
    /\ \E t \in Expiry(cache) : t > now /\ t <= MaxNow /\ now' = t
    /\ UNCHANGED <<cache, call, recent, budget, lookup>>

Next ==
    \/ \E c \in Callers : Call(c)
    \/ \E c \in Callers : FetchFails(c)
    \/ \E c \in Callers : FetchRateLimited(c)
    \/ \E c \in Callers : FetchResponds(c)
    \/ \E c \in Callers : TimerFires(c)
    \/ \E c \in Callers : JsonSettles(c)
    \/ \E c \in Callers : Resolve(c)
    \/ ClearCache
    \/ Tick

Spec == Init /\ [][Next]_vars

\* What an invocation in flight is suspended on settles: the fetch it has
\* issued, the timer it has set, or the response.json() it awaits. The call
\* of c awaits one of them at a time.
Settles(c) ==
    \/ FetchFails(c) \/ FetchRateLimited(c) \/ FetchResponds(c)
    \/ TimerFires(c)
    \/ JsonSettles(c)

Fairness == \A c \in Callers : WF_vars(Settles(c))

\* The behaviours of one invocation whose fetches may fail or be rate limited
FairInit == Init /\ budget = [calls |-> 1, faults |-> MaxFaults]

FairSpec == FairInit /\ [][Next]_vars /\ Fairness

\* -------------------------------------- SolanaConnectionManager: steps
\* balance / LAMPORTS_PER_SOL, as the quotient
Sol(balance) == [lamports |-> balance, per |-> LAMPORTS_PER_SOL]

\* What a method returns from its lookup's answer
Converted(m, v) == IF m = "getBalance" THEN Sol(v) ELSE v

Resolved(r, v) == [r EXCEPT !.pc = "resolved", !.result = Some(v)]

\* (mutant) the catch block returns an empty value instead of throwing
Rejected_Substitute(r, m) == [r EXCEPT !.pc = "resolved", !.result = Some(<<>>)]

\* The outer catch block of each method: log, then throw the method's Error
Rejected(r, m) == [r EXCEPT !.pc = "rejected", !.error = ErrorMessage(m)]

\* The awaited lookup rejected. In getTokenAccounts the inner catch takes
\* a failure of the first lookup or of its metadata lookup and goes on to
\* getTokenAccountsByOwner; everything else reaches the outer catch.
OnRejected(r, m) ==
    LET f == [r EXCEPT !.failed = @ \cup {r.pc}]
    IN  IF m = "getTokenAccounts"
           /\ r.pc \in {"getParsedTokenAccountsByOwner", "getTokenMetadata"}
        THEN [f EXCEPT !.pc = "getTokenAccountsByOwner", !.accounts = {}]
        ELSE Rejected(f, m)

\* The token accounts with symbol of the metadata, or 'Unknown'
Enhanced(accounts, known) ==
    [a \in accounts |-> IF a \in known THEN "symbol" ELSE "Unknown"]

\* A response with these accounts, of which tokenAccounts go on: [] when the
\* response is empty, otherwise on to the lookup named next
OnAccounts(r, held, tokenAccounts, next) ==
    IF held = {}
    THEN Resolved(r, Enhanced({}, {}))
    ELSE [r EXCEPT !.pc = next, !.accounts = tokenAccounts]

\* Promise.all of lines 133-157 settled: the accounts whose lookup rejected
\* (broken) or had no positive amount (empty) are filtered out
OnInfos(r, broken, empty) ==
    [r EXCEPT !.pc = "getTokenMetadata (fallback)",
              !.accounts = @ \ (broken \cup empty),
              !.dropped = broken,
              !.failed = IF broken = {} THEN @ ELSE @ \cup {"getParsedAccountInfo"}]

\* The method is called: up to its first await
Invoke(m) ==
    /\ lookup[m].pc = "idle"
    /\ \E valid \in (IF ParsesAddress(m) THEN BOOLEAN ELSE {TRUE}) :
          lookup' = [lookup EXCEPT ![m] =
              IF valid
              THEN [IdleLookup EXCEPT !.pc = FirstAwait(m)]
              ELSE Rejected([IdleLookup EXCEPT !.failed = {"PublicKey"}], m)]
    /\ UNCHANGED <<now, cache, call, recent, budget>>

\* The lookup of getBalance, getTransactions or getTransactionDetails resolves
LookupResolves(m) ==
    /\ m # "getTokenAccounts"
    /\ lookup[m].pc = FirstAwait(m)
    /\ \E v \in Answers(m) :
          lookup' = [lookup EXCEPT ![m] = Resolved(lookup[m], Converted(m, v))]
    /\ UNCHANGED <<now, cache, call, recent, budget>>

\* The awaited lookup rejects
LookupRejects(m) ==
    /\ lookup[m].pc \notin {"idle", "resolved", "rejected", "getParsedAccountInfo"}
    /\ lookup' = [lookup EXCEPT ![m] = OnRejected(lookup[m], m)]
    /\ UNCHANGED <<now, cache, call, recent, budget>>

\* getParsedTokenAccountsByOwner resolves: lines 78-100
ParsedResolves ==
    /\ lookup["getTokenAccounts"].pc = "getParsedTokenAccountsByOwner"
    /\ \E held \in SUBSET TokenAccounts : \E positive \in SUBSET held :
          lookup' = [lookup EXCEPT !["getTokenAccounts"] =
              OnAccounts(@, held, positive, "getTokenMetadata")]
    /\ UNCHANGED <<now, cache, call, recent, budget>>

\* getTokenAccountsByOwner resolves: lines 128-134
ByOwnerResolves ==
    /\ lookup["getTokenAccounts"].pc = "getTokenAccountsByOwner"
    /\ \E held \in SUBSET TokenAccounts :
          lookup' = [lookup EXCEPT !["getTokenAccounts"] =
              OnAccounts(@, held, held, "getParsedAccountInfo")]
    /\ UNCHANGED <<now, cache, call, recent, budget>>

\* Every getParsedAccountInfo of the Promise.all has settled: lines 135-165
InfosSettle ==
    /\ lookup["getTokenAccounts"].pc = "getParsedAccountInfo"
    /\ \E broken \in SUBSET lookup["getTokenAccounts"].accounts :
       \E empty \in SUBSET (lookup["getTokenAccounts"].accounts \ broken) :
          lookup' = [lookup EXCEPT !["getTokenAccounts"] = OnInfos(@, broken, empty)]
    /\ UNCHANGED <<now, cache, call, recent, budget>>

\* heliusAPI.getTokenMetadata resolves: lines 103-114, 168-179
MetadataResolves ==
    /\ lookup["getTokenAccounts"].pc \in {"getTokenMetadata", "getTokenMetadata (fallback)"}
    /\ \E known \in SUBSET lookup["getTokenAccounts"].accounts :
          lookup' = [lookup EXCEPT !["getTokenAccounts"] =
              Resolved(@, Enhanced(@.accounts, known))]
    /\ UNCHANGED <<now, cache, call, recent, budget>>

\* The caller has taken the settled promise: the method can be called again
Taken(m) ==
    /\ lookup[m].pc \in {"resolved", "rejected"}
    /\ lookup' = [lookup EXCEPT ![m] = IdleLookup]
    /\ UNCHANGED <<now, cache, call, recent, budget>>

NextAccount ==
    \/ \E m \in Methods : Invoke(m)
    \/ \E m \in Methods : LookupResolves(m)
    \/ \E m \in Methods : LookupRejects(m)
    \/ ParsedResolves
    \/ ByOwnerResolves
    \/ InfosSettle
    \/ MetadataResolves
    \/ \E m \in Methods : Taken(m)

SpecAccount == Init /\ [][NextAccount]_vars

\* ------------------------------------------------------------- claims
FailKinds == {"throw", "notok", "body"}

AllFailed(r) == \A p \in Providers : r.ended[p] \in FailKinds

Count(q, p) == Cardinality({k \in DOMAIN q : q[k] = p})

\* C1: a getSolanaPrice() call that starts while the cache holds a record
\* younger than 60000 ms is answered at once with that record's price and
\* change24h, and has sent no request to any provider.
C1_FreshHitNoRequest ==
    [][\A c \in Callers :
          (/\ call[c].pc = "idle" /\ call'[c].pc # "idle"
           /\ KEY \in DOMAIN cache
           /\ now - cache[KEY].timestamp < 60000)
          => /\ call'[c].pc = "done"
             /\ call'[c].reqs = <<>>
             /\ call'[c].result = Some([price |-> cache[KEY].price,
                                        change24h |-> cache[KEY].change24h])]_vars

C1_Witness ==
    \E c \in Callers :
        /\ call[c].pc = "done" /\ call[c].ret = "fresh" /\ call[c].reqs = <<>>
        /\ call[c].cached # None /\ now - call[c].cached[1].timestamp < 60000

\* C2: whatever the providers answer and whatever the cache holds, a call
\* never rejects, and what it settles with is a {price, change24h} pair.
C2_NeverRejects ==
    \A c \in Callers :
        /\ call[c].pc \in {"idle", "fetch", "sleep", "json", "done"}
        /\ call[c].pc = "done" =>
              /\ Len(call[c].result) = 1
              /\ DOMAIN call[c].result[1] = {"price", "change24h"}

C2_Witness ==
    \E c \in Callers :
        /\ call[c].pc = "done"
        /\ call[c].ended = [p \in Providers |->
                               IF p = 1 THEN "throw" ELSE IF p = 2 THEN "body" ELSE "notok"]

\* C3: within one call the requests go to Primary, then Secondary, then
\* Tertiary: the first is to Primary, a request to provider p+1 comes only
\* after provider p failed in this call, and no request goes to a provider
\* after one that succeeded.
C3_ProviderOrder ==
    \A c \in Callers :
        LET q == call[c].reqs
        IN  /\ q # <<>> => q[1] = 1
            /\ \A k \in 1..(Len(q) - 1) :
                  \/ q[k + 1] = q[k]
                  \/ q[k + 1] = q[k] + 1 /\ call[c].ended[q[k]] \in FailKinds
            /\ \A p \in Providers :
                  call[c].ended[p] = "ok" =>
                      /\ call[c].pc = "done"
                      /\ \A k \in DOMAIN q : q[k] <= p

C3_Witness ==
    \E c \in Callers :
        /\ call[c].ret = "fromProvider"
        /\ call[c].ended[2] = "ok"
        /\ call[c].reqs = <<1, 2>>

\* C4: a call that found a stale record in the cache when it started and
\* whose three providers all failed returns that record's price and
\* change24h.
C4_StaleFallback ==
    \A c \in Callers :
        (call[c].pc = "done" /\ call[c].cached # None /\ AllFailed(call[c]))
        => /\ call[c].ret = "stale"
           /\ call[c].result = Some([price |-> call[c].cached[1].price,
                                     change24h |-> call[c].cached[1].change24h])

C4_Witness ==
    \E c \in Callers :
        /\ call[c].pc = "done" /\ call[c].cached # None /\ AllFailed(call[c])
        /\ call[c].result # Some([price |-> Num(100), change24h |-> Num(0)])

\* C5: a call that found no record in the cache when it started and whose
\* three providers all failed returns {price: 100, change24h: 0}.
C5_DefaultFallback ==
    \A c \in Callers :
        (call[c].pc = "done" /\ call[c].cached = None /\ AllFailed(call[c]))
        => /\ call[c].ret = "default"
           /\ call[c].result = Some([price |-> Num(100), change24h |-> Num(0)])

C5_Witness ==
    \E c \in Callers :
        /\ call[c].pc = "done" /\ call[c].cached = None /\ AllFailed(call[c])

\* C6: a getSolanaPrice() call made right after clearCache() is not a cache
\* hit: it sends a request to a provider, whatever the cache held before.
C6_ClearThenCall ==
    \A c \in Callers :
        recent = c =>
            /\ call[c].pc = "fetch"
            /\ call[c].reqs = <<1>>
            /\ call[c].ret # "fresh"
            /\ call[c].cached = None

C6_Witness ==
    \E c, d \in Callers :
        /\ recent = c /\ call[c].reqs = <<1>>
        /\ call[d].pc = "done" /\ call[d].ret = "fromProvider"
        /\ cache = EmptyMap


\* ms of backoff expected after the transport error of attempt index i
ExpectedBackoff(i) == IF i = 0 THEN 1000 ELSE IF i = 1 THEN 2000 ELSE 4000

\* A step in which the call of c sends a request
Sends(c) == Len(call'[c].reqs) > Len(call[c].reqs)

\* C7: when every attempt to a provider ends in a transport error, the
\* provider gets exactly 4 requests, with waits of 1000, 2000 and 4000 ms
\* between them and none after the 4th; fetchWithRetry then fails and the
\* next provider in the chain is requested.
C7_TransportErrorsExhaust ==
    /\ [](\A c \in Callers :
            LET r == call[c]
            IN  /\ (r.pc = "sleep" /\ r.last.out = "error" /\ r.nerr[r.prov] = r.i + 1)
                    => /\ r.i <= 2
                       /\ Count(r.reqs, r.prov) = r.i + 1
                       /\ r.timer.delay = Num(ExpectedBackoff(r.i))
                /\ \A p \in Providers :
                      (r.ended[p] = "throw" /\ r.nerr[p] = 4)
                      => /\ Count(r.reqs, p) = 4
                         /\ p < 3 => Count(r.reqs, p + 1) >= 1)
    /\ [][\A c \in Callers :
            LET r == call[c]
            IN  /\ (r.pc = "sleep" /\ r.last.out = "error" /\ r.nerr[r.prov] = r.i + 1
                     /\ Sends(c))
                    => /\ now' >= r.timer.at + ExpectedBackoff(r.i)
                       /\ call'[c].reqs = Append(r.reqs, r.prov)
                /\ (r.pc = "fetch" /\ r.i = 3 /\ r.nerr[r.prov] = 3
                     /\ call'[c].nerr[r.prov] = 4)
                    => /\ now' = now
                       /\ call'[c].ended[r.prov] = "throw"
                       /\ r.prov < 3 => /\ call'[c].pc = "fetch"
                                        /\ call'[c].reqs = Append(r.reqs, r.prov + 1)
                       /\ r.prov = 3 => call'[c].pc = "done"]_vars

C7_Witness ==
    \E c \in Callers :
        /\ call[c].ended[1] = "throw" /\ call[c].nerr[1] = 4
        /\ call[c].reqs = <<1, 1, 1, 1, 2>>
        /\ call[c].pc = "fetch" /\ call[c].prov = 2
        /\ now = 7000

\* ms a 429 answer with Retry-After header h asks for, for an absent header
\* and for the header "2"
ExpectedRateLimitWait(h) == IF h = None THEN 1000 ELSE 2000

\* C8: after a 429 answer fetchWithRetry waits before it goes on: 1000 ms
\* when the answer has no Retry-After header, the header's seconds * 1000
\* (2000 ms for "2") when it has one; it sends no request before the wait
\* is over.
C8_RateLimitWait ==
    /\ [](\A c \in Callers :
            LET r == call[c]
            IN  (r.pc = "sleep" /\ r.last.out = "429"
                 /\ r.last.hdr \in {None, Some(Str(<<"2">>))})
                => r.timer.delay = Num(ExpectedRateLimitWait(r.last.hdr)))
    /\ [][\A c \in Callers :
            LET r == call[c]
            IN  (r.pc = "sleep" /\ r.last.out = "429"
                 /\ r.last.hdr \in {None, Some(Str(<<"2">>))}
                 /\ Sends(c))
                    => now' >= r.timer.at + ExpectedRateLimitWait(r.last.hdr)]_vars

C8_Witness ==
    \E c \in Callers :
        /\ call[c].pc = "fetch" /\ call[c].prov = 1 /\ call[c].i = 1
        /\ call[c].reqs = <<1, 1>> /\ call[c].nerr[1] = 0
        /\ now = 2000

\* A step in which the call of c takes an answer that is neither a
\* transport error, nor a 429, nor a 2xx whose body is still to be read,
\* nor a body that gives a price
TakesUnusable(c) ==
    /\ call[c].pc \in {"fetch", "json"}
    /\ call'[c] # call[c]
    /\ budget' = budget
    /\ ~(call[c].pc = "fetch" /\ call'[c].pc = "json")
    /\ call'[c].ret # "fromProvider"

\* C9: an answer that is neither a 429 nor a usable success (a status
\* outside 2xx, a 2xx body without the fields) ends the provider's attempts
\* at once: no more request goes to it in this call, whatever is left of
\* its 4 attempts, and the next provider is requested (after Tertiary, the
\* call returns).
C9_UnusableAnswerMovesOn ==
    /\ [](\A c \in Callers : \A p \in Providers :
            call[c].ended[p] \in {"notok", "body"}
            => /\ call[c].pc = "done" \/ call[c].prov > p
               /\ p < 3 => Count(call[c].reqs, p + 1) >= 1)
    /\ [][\A c \in Callers :
            LET r == call[c]
            IN  /\ TakesUnusable(c)
                    => /\ call'[c].ended[r.prov] \in {"notok", "body"}
                       /\ Count(r.reqs, r.prov) = r.i + 1
                       /\ r.prov < 3 => /\ call'[c].pc = "fetch"
                                        /\ call'[c].prov = r.prov + 1
                                        /\ call'[c].reqs = Append(r.reqs, r.prov + 1)
                       /\ r.prov = 3 => /\ call'[c].pc = "done"
                                        /\ call'[c].reqs = r.reqs
                /\ \A p \in Providers :
                      (r.ended[p] \in {"notok", "body"} /\ call'[c].pc # "idle")
                      => Count(call'[c].reqs, p) = Count(r.reqs, p)]_vars

C9_Witness ==
    \E c \in Callers :
        /\ call[c].ended[1] = "body"
        /\ call[c].pc = "fetch" /\ call[c].prov = 2
        /\ call[c].reqs = <<1, 2>>

\* Whether a parsed body lacks a field the provider's block extracts, or
\* holds it as something that is not a number
Deficient(p, body) ==
    CASE p = 1 -> \/ ~body.solana
                  \/ ~IsNumeric(body.usd)
                  \/ ~IsNumeric(body.usd_24h_change)
      [] p = 2 -> ~IsNumeric(body.price)
      [] p = 3 -> \/ ~IsNumeric(ParseDecimal(body.lastPrice.s))
                  \/ ~IsNumeric(ParseDecimal(body.priceChangePercent.s))

\* C10: a body in which a field the provider's block extracts is missing
\* or not numeric makes the provider fail: the next provider is tried and
\* nothing is returned or cached from that body.
C10_DeficientBodyFails ==
    [][\A c \in Callers :
          call[c].pc = "json" =>
              \A body \in {b \in Bodies(call[c].prov) : ~b.throws} :
                  (/\ Deficient(call[c].prov, body)
                   /\ call'[c] = OnJson(call[c], body, cache, now).call
                   /\ cache' = OnJson(call[c], body, cache, now).cache)
                  => /\ call'[c].ended[call[c].prov] = "body"
                     /\ cache' = cache]_vars

\* A step in which provider p's block of the call of c ends in its return
Succeeds(c, p) ==
    /\ call[c].pc = "json" /\ call[c].prov = p
    /\ call'[c].pc = "done" /\ call'[c].ended[p] = "ok"

\* C11: when Secondary succeeds, the record it writes and the pair it
\* returns hold the new price with the change24h of the record the cache
\* held just before the write, or 0 when the cache held none, also when
\* other calls and clearCache() overlap the call.
C11_SecondaryUsesCurrentChange ==
    [][\A c \in Callers :
          Succeeds(c, 2)
          => LET before == IF KEY \in DOMAIN cache THEN cache[KEY].change24h ELSE Num(0)
             IN  /\ cache'[KEY].change24h = before
                 /\ call'[c].result[1].change24h = before]_vars

\* The record a call that returned a provider's answer has written
Written(r, t) == Stored(r.result[1], t)

\* C12: overlapping calls that found the cache stale or empty are not
\* coordinated. A call that starts while another is in flight sends its own
\* request to Primary; every call that succeeds writes its own record over
\* whatever the cache holds; and when both have returned a provider's answer
\* the cache, unless cleared, holds the record of one of them: the last writer.
C12_NoSingleFlight ==
    /\ [](\A c \in Callers : \A d \in Callers \ {c} :
            (/\ call[c].pc = "done" /\ call[c].ret = "fromProvider"
             /\ call[d].pc = "done" /\ call[d].ret = "fromProvider"
             /\ KEY \in DOMAIN cache)
            => \/ cache[KEY] = Written(call[c], cache[KEY].timestamp)
               \/ cache[KEY] = Written(call[d], cache[KEY].timestamp))
    /\ [][\A c \in Callers :
            /\ (call[c].pc = "idle" /\ call'[c].pc # "idle"
                 /\ ~IsFresh(MapGet(cache, KEY), now))
                => call'[c].pc = "fetch" /\ call'[c].reqs = <<1>>
            /\ (\E p \in Providers : Succeeds(c, p))
                => cache' = MapSet(cache, KEY, Written(call'[c], now))]_vars

\* Two calls that both found the cache empty have both returned a provider's
\* answer, with different pairs, and the cache holds the record of b
C12_Witness ==
    \E c \in Callers : \E d \in Callers \ {c} :
        /\ call[c].pc = "done" /\ call[c].ret = "fromProvider" /\ call[c].cached = None
        /\ call[d].pc = "done" /\ call[d].ret = "fromProvider" /\ call[d].cached = None
        /\ call[c].result # call[d].result
        /\ KEY \in DOMAIN cache
        /\ cache[KEY] = Written(call[d], cache[KEY].timestamp)

\* The lookups whose failure getTokenAccounts survives
Survived == {"getParsedTokenAccountsByOwner", "getTokenMetadata", "getParsedAccountInfo"}

\* C13 (as claimed): each of the four methods rejects with its explicit
\* error whenever an underlying lookup failed, and never resolves after a
\* failure with a substitute or partial value.
C13_FailuresAlwaysReject ==
    \A m \in Methods :
        /\ lookup[m].pc = "resolved" => lookup[m].failed = {}
        /\ lookup[m].pc = "rejected" => lookup[m].error = ErrorMessage(m)

\* C13 (amended): getBalance, getTransactions and getTransactionDetails
\* reject with their explicit error whenever their lookup failed and resolve
\* only with the lookup's answer. getTokenAccounts rejects with its explicit
\* error when the address is invalid or when getTokenAccountsByOwner or the
\* metadata lookup after it failed; a failure of getParsedTokenAccountsByOwner
\* or of the first metadata lookup is answered by the second lookup, and an
\* account whose getParsedAccountInfo failed is left out of the list the
\* method resolves with.
C13_AccountFailures ==
    \A m \in Methods :
        LET r == lookup[m]
        IN  /\ r.pc = "rejected"
                => r.error = ErrorMessage(m) /\ r.result = None /\ r.failed # {}
            /\ (r.pc = "resolved" /\ m # "getTokenAccounts") => r.failed = {}
            /\ (r.pc = "resolved" /\ m = "getTokenAccounts")
                => /\ r.failed \subseteq Survived
                   /\ DOMAIN r.result[1] = r.accounts
                   /\ r.accounts \cap r.dropped = {}
            /\ (r.failed \ Survived # {}) => r.pc = "rejected"

\* getBalance has rejected after its lookup failed, and getTokenAccounts has
\* resolved with a list that lacks an account whose lookup failed
C13_Witness ==
    /\ lookup["getBalance"].pc = "rejected"
    /\ lookup["getBalance"].failed = {"connection.getBalance"}
    /\ lookup["getTokenAccounts"].pc = "resolved"
    /\ lookup["getTokenAccounts"].dropped # {}
    /\ lookup["getTokenAccounts"].accounts # {}

\* C14: in every reachable state the cached record, if there is one, has a
\* price that is a number greater than zero, whatever bodies the providers
\* answered with.
C14_CachedPricePositive ==
    KEY \in DOMAIN cache
    => cache[KEY].price.t = "number" /\ cache[KEY].price.n > 0

\* C15: a 429 does not count toward the growth of the backoff: the wait
\* after a transport error is 1000 ms * 2^(the transport errors this
\* provider's fetchWithRetry run met before it), whatever 429 answers came
\* in between.
C15_BackoffCountsErrorsOnly ==
    \A c \in Callers :
        LET r == call[c]
        IN  (r.pc = "sleep" /\ r.last.out = "error")
            => r.timer.delay = Num(1000 * Pow2(r.nerr[r.prov] - 1))

\* C16: 429 answers and transport errors use up the same attempts: one
\* fetchWithRetry run sends at most 4 requests to its provider whatever the
\* mix, so one call sends at most 12; a provider that answered 429 to its
\* 4th attempt is given up as failed after the wait and the next provider
\* is requested (after Tertiary, the call returns).
C16_SharedRetryBudget ==
    /\ [](\A c \in Callers :
            LET r == call[c]
            IN  /\ \A p \in Providers : Count(r.reqs, p) <= 4
                /\ Len(r.reqs) <= 12
                /\ \A p \in Providers :
                      r.ended[p] = "throw"
                      => /\ Count(r.reqs, p) = 4
                         /\ p < 3 => Count(r.reqs, p + 1) >= 1)
    /\ [][\A c \in Callers :
            LET r == call[c]
            IN  (r.pc = "sleep" /\ r.last.out = "429" /\ r.i = 3 /\ call'[c] # r)
                => /\ call'[c].ended[r.prov] = "throw"
                   /\ r.prov < 3 => /\ call'[c].pc = "fetch"
                                    /\ call'[c].reqs = Append(r.reqs, r.prov + 1)
                   /\ r.prov = 3 => /\ call'[c].pc = "done"
                                    /\ call'[c].reqs = r.reqs]_vars

\* Primary answered 429 to each of its 4 attempts and Secondary is requested
C16_Witness ==
    \E c \in Callers :
        /\ call[c].ended[1] = "throw" /\ call[c].nerr[1] = 0
        /\ call[c].reqs = <<1, 1, 1, 1, 2>>
        /\ call[c].pc = "fetch" /\ call[c].prov = 2

\* C17: when clearCache() has completed while a call was in flight, after
\* its cache check, and every provider then fails, there is no cached record
\* at the time of the fallback and the call returns the default {100, 0},
\* not the values of the record that was discarded.
C17_ClearedMeansDefault ==
    [][\A c \in Callers :
          (/\ call[c].pc \in {"fetch", "sleep", "json"}
           /\ call'[c].pc = "done" /\ AllFailed(call'[c])
           /\ cache = EmptyMap)
          => /\ call'[c].ret = "default"
             /\ call'[c].result = Some(DefaultPair)]_vars

\* A step in which the call of c returns without a provider's answer
ReturnsOther(c) ==
    /\ call[c].pc # "done" /\ call'[c].pc = "done"
    /\ call'[c].ret \in {"fresh", "stale", "default"}

\* C18: the cache changes only when a provider's answer is taken, to the
\* pair that call returns stamped with the time of the write, or when
\* clearCache() empties it; a return from a fresh hit, from the stale
\* fallback or with the default leaves the cache as it was, timestamp
\* included, and does not write the default {100, 0}.
C18_CacheFrame ==
    [][/\ cache' # cache
          => \/ cache' = EmptyMap /\ call' = call
             \/ \E c \in Callers :
                   /\ \E p \in Providers : Succeeds(c, p)
                   /\ call'[c].ret = "fromProvider"
                   /\ cache' = MapSet(cache, KEY,
                          [price |-> call'[c].result[1].price,
                           change24h |-> call'[c].result[1].change24h,
                           timestamp |-> now'])
       /\ \A c \in Callers : ReturnsOther(c) => cache' = cache]_vars

\* A call has returned the stale record after a later time than its write,
\* and the cache still holds that record with its timestamp
C18_Witness ==
    \E c \in Callers :
        /\ call[c].pc = "done" /\ call[c].ret = "stale"
        /\ MapGet(cache, KEY) = call[c].cached
        /\ cache[KEY].timestamp + CACHE_DURATION <= now

\* The four ways a call returns
Terminal == {"fresh", "fromProvider", "stale", "default"}

\* What an invocation in flight has at most left to do: the provider blocks
\* after this one, the loop iterations after this one, and the rest of this
\* iteration
Remaining(r) ==
    IF r.pc \in {"idle", "done"}
    THEN 0
    ELSE (3 - r.prov) * 13 + (MAX_RETRIES - r.i) * 3
         + (CASE r.pc = "fetch" -> 3 [] r.pc = "json" -> 2 [] r.pc = "sleep" -> 1)

\* C19: every call returns, in exactly one of the four terminal states,
\* when every fetch it issued settles and every delay it waits for elapses.
\* Whenever calls are in flight there comes a state in which none is, each
\* having returned; and whatever the outcomes are, each step of a call in
\* flight brings it closer to its return: no sequence of outcomes keeps it
\* retrying.
C19_Terminates ==
    /\ (\E c \in Callers : call[c].pc \in {"fetch", "sleep", "json"})
          ~> (\A c \in Callers : call[c].pc \in {"idle", "done"})
    /\ [](\A c \in Callers :
            /\ call[c].pc \in {"idle", "fetch", "sleep", "json", "done"}
            /\ call[c].pc = "done" <=> call[c].ret \in Terminal
            /\ call[c].pc = "done" <=> call[c].result # None)
    /\ [][\A c \in Callers :
            (call[c].pc \in {"fetch", "sleep", "json"} /\ call'[c] # call[c])
            => Remaining(call'[c]) < Remaining(call[c])]_vars

\* A call has returned after 4 failed attempts to Primary and an unusable
\* answer from Secondary and from Tertiary
C19_Witness ==
    \E c \in Callers :
        /\ call[c].pc = "done" /\ call[c].ret \in Terminal
        /\ call[c].reqs = <<1, 1, 1, 1, 2, 3>>

\* A step in which c calls getSolanaPrice() while the cache holds a record
CallsWithRecord(c) ==
    /\ call[c].pc = "idle" /\ call'[c].pc # "idle"
    /\ KEY \in DOMAIN cache

\* C20 (as claimed): a record is stale only once its age exceeds 60 s: a
\* call at the age of exactly 60000 ms is served from the cache with no
\* request, a call at any greater age requests the providers.
C20_StaleOnlyAfterWindow ==
    [][\A c \in Callers :
          CallsWithRecord(c)
          => /\ now - cache[KEY].timestamp <= 60000
                => call'[c].pc = "done" /\ call'[c].reqs = <<>>
             /\ now - cache[KEY].timestamp > 60000
                => call'[c].pc = "fetch" /\ call'[c].reqs = <<1>>]_vars

\* C20 (amended): a record is stale once its age has reached 60 s: a call
\* at an age below 60000 ms is served from the cache with no request, a
\* call at the age of exactly 60000 ms or more requests the providers,
\* Primary first.
C20_StaleFromWindow ==
    [][\A c \in Callers :
          CallsWithRecord(c)
          => /\ now - cache[KEY].timestamp < 60000
                => /\ call'[c].pc = "done" /\ call'[c].ret = "fresh"
                   /\ call'[c].reqs = <<>>
             /\ now - cache[KEY].timestamp >= 60000
                => call'[c].pc = "fetch" /\ call'[c].reqs = <<1>>]_vars

\* A call made at the age of exactly 60000 ms has sent its request to Primary
C20_Witness ==
    \E c \in Callers :
        /\ call[c].pc = "fetch" /\ call[c].reqs = <<1>>
        /\ call[c].cached # None
        /\ now - call[c].cached[1].timestamp = 60000

====
